---- MODULE Spec2Model ----
(***************************************************************************)
(* Adaptive bitrate player (src/src/App.tsx): the quality selector         *)
(* selectOptimalQuality and the session control loop of the component      *)
(* AdaptiveBitratePlayer that feeds it.                                    *)
(*                                                                         *)
(* Units.  The source computes in IEEE doubles; the model computes the     *)
(* same comparisons in exact integer arithmetic:                           *)
(*   bandwidth      in units of 10 kbit/s   (800000 bit/s  = 80)           *)
(*   packetLoss     in permille             (0.01          = 10)           *)
(*   buffer seconds as whole seconds                                       *)
(* so  availableBandwidth > requiredBandwidth * 0.8  becomes               *)
(*     bandwidth * (1000 - packetLoss) * 10 > requiredBandwidth * 8 * 1000 *)
(* and bufferRatio > 1.2 becomes currentBuffer * 10 > 12 * targetBuffer.   *)
(* The sample values below are ones on which the double evaluation and the *)
(* exact one agree, ties included (640000 against 800000 * 0.8, 36 / 30    *)
(* against 1.2).  A tie that doubles round apart, such as                  *)
(* 2000000 * (1 - 0.02) against 1400000 * 1.4, is not among them.          *)
(***************************************************************************)
EXTENDS Integers, Sequences, FiniteSets

VARIABLES
    \* ---- React state of AdaptiveBitratePlayer (App.tsx 459-482) ----
    qualityLevels,          \* useState<QualityLevel[]>([])
    currentQuality,         \* useState<number>(0)
    networkCondition,       \* useState<NetworkCondition>
    bufferHealth,           \* useState<BufferHealth>
    manualQualityOverride,  \* useState<number | null>(null)
    switchCount,            \* metrics.switchCount
    video,                  \* videoRef.current: buffered ranges and currentTime
                            \* as the buffer monitor last read them
    manifest,               \* the master playlist initializePlayer parses
    simulated,              \* what simulateNetworkConditions returned last, in
                            \* bit/s, and ms and loss as exact fractions
    avgBandwidth,           \* metrics.avgBandwidth as the exact fraction num / den
    \* ---- history: the largest bandwidth the network monitor sampled,
    \*      currentQuality at the last external event, and the handler that
    \*      made the last step ----
    peakBandwidth,
    chainVisited,           \* the active indices since the last external event
    obsQuality,
    lastEvent,
    \* ---- harness for calls of the pure function selectOptimalQuality ----
    selPc,                  \* "idle" | "call" | "done"
    selArgs,                \* the four arguments of the call
    selResult,              \* the index returned
    selReads,               \* the ladder indices the call read
    \* ---- React state and refs of the segment pipeline (App.tsx 448-482) ----
    isPlaying,              \* useState(false)
    loading,                \* useState(false)
    currentSegmentIndex,    \* useState(0)
    droppedFrames,          \* metrics.droppedFrames
    sourceBuffer,           \* sourceBufferRef.current and its updating flag
    mounted,                \* FALSE once the effect cleanups have run
    timerArmed,             \* the auto-load effect's setTimeout is pending
    timerDue,               \* the pending timer's 1000 ms have passed
    fetches,                \* the loadNextSegment invocations awaiting loadSegment
    emitted,                \* the logEvent calls of the last step, in order
    \* ---- harness for calls of loadSegment ----
    loadCall,
    \* ---- the two rings logEvent fills, and the entries recorded so far ----
    logs,                   \* useState<LogEntry[]>([])
    bufferEvents,           \* metrics.bufferEvents
    recorded,               \* every entry logEvent was called with, in order
    severities              \* the severities of the calls to come, cyclically

vars == <<qualityLevels, currentQuality, networkCondition, bufferHealth,
          manualQualityOverride, switchCount, video, manifest, simulated,
          avgBandwidth, peakBandwidth, chainVisited, obsQuality,
          lastEvent, selPc, selArgs, selResult, selReads,
          isPlaying, loading, currentSegmentIndex, droppedFrames, sourceBuffer,
          mounted, timerArmed, timerDue, fetches, emitted,
          loadCall, logs, bufferEvents, recorded, severities>>

sessionVars == <<qualityLevels, currentQuality, networkCondition, bufferHealth,
                 manualQualityOverride, switchCount, video, manifest, simulated,
                 avgBandwidth, peakBandwidth, chainVisited, obsQuality, lastEvent>>

selVars == <<selPc, selArgs, selResult, selReads>>

pipelineVars == <<isPlaying, loading, currentSegmentIndex, droppedFrames,
                  sourceBuffer, mounted, fetches>>

loadVars == <<loadCall>>

ringVars == <<logs, bufferEvents, recorded, severities>>

(***************************************************************************)
(* Bounds of the model.                                                    *)
(***************************************************************************)
MaxLadderLen == 3
MaxOverrideIndex == 4
\* network samples a session takes
MaxSamples == 2

MaxSwitches == 2

(***************************************************************************)
(* Program constants.                                                      *)
(***************************************************************************)
SwitchUpTenths == 14
SwitchDownTenths == 8
BufferRatioTenths == 12
StarvationSeconds == 5
TargetBufferSeconds == 30

Max(a, b) == IF a >= b THEN a ELSE b
Min(a, b) == IF a <= b THEN a ELSE b

\* number | null
NoOverride == [isNull |-> TRUE, value |-> 0]
Override(q) == [isNull |-> FALSE, value |-> q]

\* the arguments of one logEvent(message, type) call (lines 490-491); the
\* message is kept by its kind, without the interpolated numbers
LogCall(message, type) == [message |-> message, type |-> type]

\* line 712 without the isPlaying test
AutoLoadArmed_IgnoresPlaying(playing, health) ==
    health.currentBuffer < health.targetBuffer

\* lines 711-716: the auto-load effect arms its one-shot timer when its
\* condition holds at the render that runs it
AutoLoadArmed(playing, health) ==
    playing /\ health.currentBuffer < health.targetBuffer

\* an optional field of a result: absent, or present with a value
Absent == <<>>
Present(v) == <<v>>

\* no loadSegment call
IdleCall ==
    [url |-> [quality |-> 0, index |-> 0], retries |-> 0, attempt |-> 0,
     pc |-> "idle", outcomes |-> <<>>, waits |-> <<>>,
     result |-> [success |-> FALSE, data |-> Absent, error |-> Absent]]

\* lines 448-482: the pipeline's state and refs after construction
PipelineInit ==
    /\ isPlaying = FALSE
    /\ loading = FALSE
    /\ currentSegmentIndex = 0
    /\ droppedFrames = 0
    /\ sourceBuffer = [mediaSource |-> "none", attached |-> FALSE,
                       updating |-> FALSE]
    /\ mounted = TRUE
    /\ timerArmed = FALSE
    /\ timerDue = FALSE
    /\ fetches = <<>>
    /\ emitted = <<>>

\* lines 466-477: both rings empty
RingIdle ==
    /\ logs = <<>>
    /\ bufferEvents = <<>>
    /\ recorded = <<>>
    /\ severities = <<"info">>

(***************************************************************************)
(* selectOptimalQuality (App.tsx 191-233).  Ladder indices are the code's  *)
(* 0-based indices; qualityLevels[i] of the code is qualityLevels[i + 1]   *)
(* of the TLA+ sequence.                                                   *)
(***************************************************************************)

\* line 200, without the clamp
safeCurrentQuality_Unclamped(levels, current) == current

\* line 200: Math.max(0, Math.min(currentQuality, qualityLevels.length - 1))
safeCurrentQuality(levels, current) == Max(0, Min(current, Len(levels) - 1))

\* line 202: networkCondition.bandwidth * (1 - networkCondition.packetLoss), times 1000
availableBandwidth(network) == network.bandwidth * (1000 - network.packetLoss)

\* line 203 and the test of line 223: bufferRatio > 1.2
bufferRatioHealthy(buffer) ==
    buffer.currentBuffer * 10 > BufferRatioTenths * buffer.targetBuffer

\* line 216 with no safety margin
canSustain_NoMargin(requiredBandwidth, network) ==
    availableBandwidth(network) > requiredBandwidth * 1000

\* line 216 with >= for >
canSustain_Inclusive(requiredBandwidth, network) ==
    availableBandwidth(network) * 10 >= requiredBandwidth * SwitchDownTenths * 1000

\* line 216: availableBandwidth > requiredBandwidth * switchDownThreshold
canSustain(requiredBandwidth, network) ==
    availableBandwidth(network) * 10 > requiredBandwidth * SwitchDownTenths * 1000

\* line 217 with the switch-down threshold
canUpgrade_NoHeadroom(requiredBandwidth, network) ==
    availableBandwidth(network) * 10 > requiredBandwidth * SwitchDownTenths * 1000

\* line 217 with a switch-up threshold of 0.5, below the switch-down threshold
canUpgrade_BelowSustain(requiredBandwidth, network) ==
    availableBandwidth(network) * 10 > requiredBandwidth * 5 * 1000

\* line 217 with < for >
canUpgrade_Inverted(requiredBandwidth, network) ==
    availableBandwidth(network) * 10 < requiredBandwidth * SwitchUpTenths * 1000

\* line 217: availableBandwidth > requiredBandwidth * switchUpThreshold
canUpgrade(requiredBandwidth, network) ==
    availableBandwidth(network) * 10 > requiredBandwidth * SwitchUpTenths * 1000

\* line 207 jumping to the lowest tier
emergencyTarget_ToLowest(safe) == 0

\* line 207: Math.max(0, safeCurrentQuality - 1)
emergencyTarget(safe) == Max(0, safe - 1)

\* lines 214-232: the scan from index i downward; the result and the indices read
RECURSIVE scan(_, _, _, _, _)
scan(levels, network, buffer, safe, i) ==
    IF i < 0
    THEN [index |-> 0, reads |-> {}]
    ELSE LET requiredBandwidth == levels[i + 1].bandwidth
             sustain == canSustain(requiredBandwidth, network)
             upgrade == canUpgrade(requiredBandwidth, network)
         IN  IF i = safe /\ sustain
             THEN [index |-> i, reads |-> {i}]
             ELSE IF i > safe /\ upgrade /\ bufferRatioHealthy(buffer)
             THEN [index |-> i, reads |-> {i}]
             ELSE IF i < safe /\ sustain
             THEN [index |-> i, reads |-> {i}]
             ELSE LET rest == scan(levels, network, buffer, safe, i - 1)
                  IN  [index |-> rest.index, reads |-> rest.reads \cup {i}]

\* lines 191-233: the result and the ladder indices read on the way
selectTrace(levels, network, buffer, current) ==
    IF Len(levels) = 0
    THEN [index |-> 0, reads |-> {}]
    ELSE LET safe == safeCurrentQuality(levels, current)
         IN  IF buffer.isStarving /\ safe > 0
             THEN [index |-> emergencyTarget(safe), reads |-> {}]
             ELSE scan(levels, network, buffer, safe, Len(levels) - 1)

selectOptimalQuality(levels, network, buffer, current) ==
    selectTrace(levels, network, buffer, current).index

(***************************************************************************)
(* Calls of selectOptimalQuality on arbitrary arguments: ladders sorted    *)
(* ascending by bandwidth as parseHLSManifest returns them (line 160),     *)
(* any network condition, any buffer health (isStarving is an argument of  *)
(* its own here), any integer currentQuality around the ladder.            *)
(***************************************************************************)
SelBandwidths == {80, 140, 280}
SelLevels == {[bandwidth |-> bw] : bw \in SelBandwidths}

IsSortedLadder(levels) ==
    \A i \in 1..Len(levels) - 1 : levels[i].bandwidth <= levels[i + 1].bandwidth

SelLadders ==
    {levels \in UNION {[1..k -> SelLevels] : k \in 0..MaxLadderLen} :
        IsSortedLadder(levels)}

SelNetworks == [bandwidth : {50, 64, 112, 120, 200, 400}, packetLoss : {0, 10, 100}]

SelBuffers ==
    [currentBuffer : {0, 2, 36, 40}, targetBuffer : {TargetBufferSeconds},
     isStarving : BOOLEAN]

SelCurrents == -1..MaxLadderLen + 1

SelArgs ==
    [qualityLevels : SelLadders, networkCondition : SelNetworks,
     bufferHealth : SelBuffers, currentQuality : SelCurrents]

IdleArgs ==
    [qualityLevels |-> <<>>,
     networkCondition |-> [bandwidth |-> 200, packetLoss |-> 10],
     bufferHealth |-> [currentBuffer |-> 0, targetBuffer |-> TargetBufferSeconds,
                       isStarving |-> FALSE],
     currentQuality |-> 0]

\* one call of selectOptimalQuality(selArgs...)
CallSelect ==
    /\ selPc = "call"
    /\ LET t == selectTrace(selArgs.qualityLevels, selArgs.networkCondition,
                            selArgs.bufferHealth, selArgs.currentQuality)
       IN  /\ selResult' = t.index
           /\ selReads' = t.reads
    /\ selPc' = "done"
    /\ UNCHANGED <<selArgs, sessionVars, pipelineVars, timerArmed, timerDue, emitted,
                   loadVars, ringVars>>

(***************************************************************************)
(* The playlists (App.tsx 4-55) and their parsers (132-183).  A playlist   *)
(* is the sequence of its lines as split('\n') yields them.  A line is a   *)
(* record: kind says how the line starts, text is the whole line for a     *)
(* tag or a URI, and attrs is the attribute list of an #EXT-X-STREAM-INF   *)
(* tag in the order written.  Bandwidths are in units of 10 kbit/s.        *)
(***************************************************************************)
Blank == [kind |-> "blank", text |-> "", attrs |-> <<>>]

Tag(text) == [kind |-> "tag", text |-> text, attrs |-> <<>>]

Uri(text) == [kind |-> "uri", text |-> text, attrs |-> <<>>]

ExtInf == [kind |-> "extinf", text |-> "#EXTINF:10.0,", attrs |-> <<>>]

StreamInf(attrs) == [kind |-> "streamInf", text |-> "#EXT-X-STREAM-INF:", attrs |-> attrs]

\* NAME=value attributes of a stream-info tag; a numeric value is a digit string
Bandwidth(n) == [name |-> "BANDWIDTH", number |-> n, text |-> ""]

AverageBandwidth(n) == [name |-> "AVERAGE-BANDWIDTH", number |-> n, text |-> ""]

Resolution(text) == [name |-> "RESOLUTION", number |-> 0, text |-> text]

\* lines 4-13: MOCK_HLS_MANIFEST
MockManifest ==
    <<Tag("#EXTM3U"), Tag("#EXT-X-VERSION:3"),
      StreamInf(<<Bandwidth(80), Resolution("640x360")>>), Uri("stream_360p.m3u8"),
      StreamInf(<<Bandwidth(140), Resolution("854x480")>>), Uri("stream_480p.m3u8"),
      StreamInf(<<Bandwidth(280), Resolution("1280x720")>>), Uri("stream_720p.m3u8"),
      StreamInf(<<Bandwidth(500), Resolution("1920x1080")>>), Uri("stream_1080p.m3u8")>>

\* lines 16-25: the shape of each media playlist of MOCK_SEGMENT_PLAYLISTS
MediaPlaylist(first, second, third) ==
    <<Tag("#EXTM3U"), Tag("#EXT-X-VERSION:3"), Tag("#EXT-X-TARGETDURATION:10"),
      ExtInf, Uri(first), ExtInf, Uri(second), ExtInf, Uri(third),
      Tag("#EXT-X-ENDLIST")>>

\* lines 15-56: MOCK_SEGMENT_PLAYLISTS
MockSegmentPlaylists ==
    [url \in {"stream_360p.m3u8", "stream_480p.m3u8", "stream_720p.m3u8",
              "stream_1080p.m3u8"} |->
        CASE url = "stream_360p.m3u8" ->
               MediaPlaylist("segment_360p_001.ts", "segment_360p_002.ts",
                             "segment_360p_003.ts")
          [] url = "stream_480p.m3u8" ->
               MediaPlaylist("segment_480p_001.ts", "segment_480p_002.ts",
                             "segment_480p_003.ts")
          [] url = "stream_720p.m3u8" ->
               MediaPlaylist("segment_720p_001.ts", "segment_720p_002.ts",
                             "segment_720p_003.ts")
          [] url = "stream_1080p.m3u8" ->
               MediaPlaylist("segment_1080p_001.ts", "segment_1080p_002.ts",
                             "segment_1080p_003.ts")]

\* lines 133 and 174: content.split('\n').filter(line => line.trim())
splitLines(content) == SelectSeq(content, LAMBDA line : line.kind # "blank")

RECURSIVE segmentsFrom(_, _)
\* lines 177-181: the line after each #EXTINF line, from index i on
segmentsFrom(lines, i) ==
    IF i > Len(lines) THEN <<>>
    ELSE IF lines[i].kind = "extinf" /\ i + 1 <= Len(lines)
    THEN <<lines[i + 1].text>> \o segmentsFrom(lines, i + 1)
    ELSE segmentsFrom(lines, i + 1)

\* lines 169-172 with the lookup's miss answered by an empty playlist
parseSegmentPlaylist_NeverThrows(playlistUrl) ==
    [ok |-> TRUE, segments |-> <<>>, error |-> ""]

\* lines 169-183: parseSegmentPlaylist; the playlist reference is the whole line
\* that follows the tag, and only the text of a URI line can be a key of the table
parseSegmentPlaylist(playlistUrl) ==
    IF playlistUrl.kind = "uri" /\ playlistUrl.text \in DOMAIN MockSegmentPlaylists
    THEN [ok |-> TRUE,
          segments |-> segmentsFrom(splitLines(MockSegmentPlaylists[playlistUrl.text]), 1),
          error |-> ""]
    ELSE [ok |-> FALSE, segments |-> <<>>, error |-> "Playlist not found"]

\* the attribute names in which an unanchored regular expression KEY=... finds
\* its key: /BANDWIDTH=(\d+)/ also matches inside AVERAGE-BANDWIDTH=...
NamesContaining(key) ==
    IF key = "BANDWIDTH" THEN {"BANDWIDTH", "AVERAGE-BANDWIDTH"} ELSE {key}

RECURSIVE exec(_, _, _)
\* lines 141-142: regex.exec(line), the leftmost attribute from k on in which the
\* expression matches (its index), or 0 for null
exec(key, attrs, k) ==
    IF k > Len(attrs) THEN 0
    ELSE IF attrs[k].name \in NamesContaining(key) THEN k
    ELSE exec(key, attrs, k + 1)

\* lines 148-154: the level pushed for a tag line and the line after it
qualityLevel(line, playlistUrl, segments) ==
    LET bandwidthMatch == line.attrs[exec("BANDWIDTH", line.attrs, 1)]
        resolutionMatch == line.attrs[exec("RESOLUTION", line.attrs, 1)]
    IN  [id |-> [bandwidth |-> bandwidthMatch.number,
                 resolution |-> resolutionMatch.text],
         bandwidth |-> bandwidthMatch.number,
         resolution |-> resolutionMatch.text,
         url |-> playlistUrl.text,
         segments |-> segments]

RECURSIVE insertByBandwidth(_, _)
\* one element placed behind every element that does not compare greater
insertByBandwidth(level, sorted) ==
    IF Len(sorted) = 0 THEN <<level>>
    ELSE IF sorted[Len(sorted)].bandwidth - level.bandwidth <= 0
    THEN Append(sorted, level)
    ELSE Append(insertByBandwidth(level, SubSeq(sorted, 1, Len(sorted) - 1)),
                sorted[Len(sorted)])

RECURSIVE sortByBandwidth(_)
\* line 160: qualityLevels.sort((a, b) => a.bandwidth - b.bandwidth), stable
sortByBandwidth(levels) ==
    IF Len(levels) = 0 THEN <<>>
    ELSE insertByBandwidth(levels[Len(levels)],
                           sortByBandwidth(SubSeq(levels, 1, Len(levels) - 1)))

RECURSIVE parseFrom(_, _, _)
\* lines 139-158: the loop over the lines from index i on, qualityLevels so far
\* in levels; a throw of parseSegmentPlaylist ends the loop
parseFrom(lines, i, levels) ==
    IF i > Len(lines) THEN [ok |-> TRUE, levels |-> levels, error |-> ""]
    ELSE IF /\ lines[i].kind = "streamInf"
            /\ exec("BANDWIDTH", lines[i].attrs, 1) # 0
            /\ exec("RESOLUTION", lines[i].attrs, 1) # 0
            /\ i + 1 <= Len(lines)
    THEN LET playlist == parseSegmentPlaylist(lines[i + 1])
         IN  IF playlist.ok
             THEN parseFrom(lines, i + 1,
                            Append(levels, qualityLevel(lines[i], lines[i + 1],
                                                        playlist.segments)))
             ELSE [ok |-> FALSE, levels |-> <<>>, error |-> playlist.error]
    ELSE parseFrom(lines, i + 1, levels)

\* lines 132-161: parseHLSManifest; ok is FALSE when the promise rejects
parseHLSManifest(manifestContent) ==
    LET parsed == parseFrom(splitLines(manifestContent), 1, <<>>)
    IN  IF parsed.ok
        THEN [ok |-> TRUE, levels |-> sortByBandwidth(parsed.levels), error |-> ""]
        ELSE parsed

(***************************************************************************)
(* The session: state after construction (useState defaults, 459-482).     *)
(***************************************************************************)
ComponentInit ==
    /\ qualityLevels = <<>>
    /\ currentQuality = 0
    /\ networkCondition = [bandwidth |-> 200, packetLoss |-> 10]
    /\ bufferHealth = [currentBuffer |-> 0, targetBuffer |-> TargetBufferSeconds,
                       isStarving |-> FALSE]
    /\ manualQualityOverride = NoOverride
    /\ switchCount = 0
    /\ video = [buffered |-> <<>>, currentTime |-> 0]
    /\ chainVisited = {0}
    /\ simulated = [bandwidth |-> 2000000, latency |-> [num |-> 50, den |-> 1],
                    packetLoss |-> [num |-> 10, den |-> 1000]]
    /\ obsQuality = 0
    /\ lastEvent = "mount"

\* metrics.avgBandwidth as a fraction.  Sessions that do not follow the average
\* hold Untracked, which stands for any value and which every update leaves
\* as it is; SpecAvg follows the average from its initial 0 (line 474).
Untracked == [tracked |-> FALSE, num |-> 0, den |-> 1]

Average(num, den) == [tracked |-> TRUE, num |-> num, den |-> den]

\* line 526: the session parses MOCK_HLS_MANIFEST
SessionInit ==
    /\ ComponentInit
    /\ manifest = MockManifest
    /\ avgBandwidth = Untracked
    /\ peakBandwidth = 0

SelInit ==
    /\ SessionInit
    /\ PipelineInit
    /\ loadCall = IdleCall
    /\ RingIdle
    /\ selPc = "call"
    /\ selArgs \in SelArgs
    /\ selResult = 0
    /\ selReads = {}

SelNext == CallSelect

SpecSel == SelInit /\ [][SelNext]_vars

\* calls on ladders in any order: every sequence of up to MaxLadderLen levels
AnyLadders == UNION {[1..k -> SelLevels] : k \in 0..MaxLadderLen}

SelAnyArgs ==
    [qualityLevels : AnyLadders, networkCondition : SelNetworks,
     bufferHealth : SelBuffers, currentQuality : SelCurrents]

SelAnyInit ==
    /\ SessionInit
    /\ PipelineInit
    /\ loadCall = IdleCall
    /\ RingIdle
    /\ selPc = "call"
    /\ selArgs \in SelAnyArgs
    /\ selResult = 0
    /\ selReads = {}

SpecSelAny == SelAnyInit /\ [][SelNext]_vars

(***************************************************************************)
(* The session control loop of AdaptiveBitratePlayer.                      *)
(*                                                                         *)
(* Handlers and timer callbacks set React state; the component then        *)
(* re-renders, recomputing the memo optimalQuality from the new state, and *)
(* runs the quality-change effect.  A render together with the effect it   *)
(* schedules is one step (QualityChangeEffect); when the effect sets       *)
(* currentQuality the component renders again, which is the next such      *)
(* step.  Timer callbacks and commands interleave freely between steps.    *)
(***************************************************************************)

\* MOCK_HLS_MANIFEST (lines 4-13) as parseHLSManifest returns it: four levels,
\* ascending by bandwidth
MockLadder == parseHLSManifest(MockManifest).levels

\* samples of simulateNetworkConditions (lines 108-124), one per base tier:
\* poor, fair, good, excellent
NetworkSamples ==
    {[bandwidth |-> 25, packetLoss |-> 50], [bandwidth |-> 90, packetLoss |-> 20],
     [bandwidth |-> 200, packetLoss |-> 10], [bandwidth |-> 500, packetLoss |-> 5]}

\* lines 622-623 without the test of the range's start
inRange_IgnoresStart(range, currentTime) == currentTime <= range.end

\* line 622: buffered.start(i) <= currentTime && currentTime <= buffered.end(i)
inRange(range, currentTime) ==
    range.start <= currentTime /\ currentTime <= range.end

RECURSIVE bufferedFrom(_, _, _)
\* lines 621-626: the loop over video.buffered from index i on
bufferedFrom(buffered, currentTime, i) ==
    IF i > Len(buffered) THEN 0
    ELSE IF inRange(buffered[i], currentTime)
    THEN buffered[i].end - currentTime
    ELSE bufferedFrom(buffered, currentTime, i + 1)

\* lines 616-626: currentBuffer as the buffer monitor computes it
bufferedAhead(element) == bufferedFrom(element.buffered, element.currentTime, 1)

\* states of the video element at a tick of the session: nothing buffered, and
\* one range from 0 with the playhead at 10 s
VideoSamples ==
    {[buffered |-> <<>>, currentTime |-> 0]} \cup
    {[buffered |-> <<[start |-> 0, end |-> e]>>, currentTime |-> 10] :
        e \in {12, 20, 50}}

\* buffered seconds ahead of the cursor as the buffer monitor computes them
\* (lines 620-626): none, starving, below target, above 1.2 x target
BufferSamples == {bufferedAhead(element) : element \in VideoSamples}

\* the arguments of handleQualityOverride: null or an index
OverrideInputs == {NoOverride} \cup {Override(q) : q \in -1..MaxOverrideIndex}

\* the init effect has run: initializePlayer awaits only resolved promises, so it
\* completes before the first timer or input event
Initialized == lastEvent # "mount"

\* lines 648-653 without the override test
optimalQuality_IgnoresOverride ==
    IF Len(qualityLevels) = 0 THEN 0
    ELSE selectOptimalQuality(qualityLevels, networkCondition, bufferHealth,
                              currentQuality)

\* lines 648-653: the memo optimalQuality
optimalQuality ==
    IF Len(qualityLevels) = 0 THEN 0
    ELSE IF ~manualQualityOverride.isNull THEN manualQualityOverride.value
    ELSE selectOptimalQuality(qualityLevels, networkCondition, bufferHealth,
                              currentQuality)

\* lines 521-547: initializePlayer, on mount
InitializePlayer ==
    /\ mounted
    /\ ~Initialized
    /\ LET qualities == parseHLSManifest(manifest)
       IN  IF qualities.ok
           THEN /\ qualityLevels' = qualities.levels
                /\ emitted' = <<LogCall("Initializing adaptive bitrate player", "info"),
                                LogCall("Loaded quality levels", "info")>>
                /\ sourceBuffer' = [sourceBuffer EXCEPT !.mediaSource = "closed"]
           ELSE /\ qualityLevels' = qualityLevels
                /\ emitted' = <<LogCall("Initializing adaptive bitrate player", "info"),
                                LogCall("Initialization failed", "error")>>
                /\ sourceBuffer' = sourceBuffer
    /\ currentQuality' = 0
    /\ obsQuality' = 0
    /\ chainVisited' = {0}
    /\ lastEvent' = "init"
    /\ loading' = FALSE
    /\ timerArmed' = AutoLoadArmed(isPlaying, bufferHealth)
    /\ timerDue' = FALSE
    /\ UNCHANGED <<networkCondition, bufferHealth, manualQualityOverride,
                   switchCount, video, manifest, simulated, avgBandwidth,
                   peakBandwidth, selVars, isPlaying,
                   currentSegmentIndex, droppedFrames, mounted, fetches,
                   loadVars, ringVars>>

RECURSIVE Power(_, _)
Power(base, exponent) ==
    IF exponent = 0 THEN 1 ELSE base * Power(base, exponent - 1)

\* lines 599-602 with the weights exchanged: 0.2 of the average, 0.8 of the sample
rollingAverage_SwapsWeights(average, bandwidth) ==
    Average(average.num + 4 * bandwidth * average.den, 5 * average.den)

\* lines 599-602: (prev.avgBandwidth * 0.8) + (newCondition.bandwidth * 0.2), as
\* the fraction (4 * num + bandwidth * den) / (5 * den)
rollingAverage(average, bandwidth) ==
    Average(4 * average.num + bandwidth * average.den, 5 * average.den)

\* lines 599-602: the functional update of metrics with the new sample
setAverage(average, bandwidth) ==
    IF average.tracked THEN rollingAverage(average, bandwidth) ELSE average

\* lines 595-603: the network monitor's interval callback, drawing `newCondition'
networkMonitorTick(newCondition) ==
    /\ networkCondition' = newCondition
    /\ avgBandwidth' = setAverage(avgBandwidth, newCondition.bandwidth)
    /\ peakBandwidth' =
          IF avgBandwidth.tracked /\ newCondition.bandwidth > peakBandwidth
          THEN newCondition.bandwidth ELSE peakBandwidth
    /\ obsQuality' = currentQuality
    /\ chainVisited' = {currentQuality}
    /\ lastEvent' = "network"
    /\ emitted' = <<>>
    /\ timerArmed' = AutoLoadArmed(isPlaying, bufferHealth)
    /\ timerDue' = FALSE
    /\ UNCHANGED <<manifest, simulated, qualityLevels,
                   currentQuality, bufferHealth, manualQualityOverride,
                   switchCount, video, selVars, pipelineVars, loadVars, ringVars>>

NetworkTick ==
    /\ mounted
    /\ Initialized
    /\ switchCount < MaxSwitches
    /\ avgBandwidth.tracked => avgBandwidth.den < Power(5, MaxSamples)
    /\ \E newCondition \in NetworkSamples : networkMonitorTick(newCondition)

\* the conditions the fetch session samples: they move the selection between
\* the two lowest tiers, in both directions
FetchNetworkSamples ==
    {newCondition \in NetworkSamples : newCondition.bandwidth <= 200}

\* the network monitor's tick in the fetch session
FetchNetworkTick ==
    /\ mounted
    /\ Initialized
    /\ switchCount < MaxSwitches
    /\ \E newCondition \in FetchNetworkSamples : networkMonitorTick(newCondition)

\* lines 630-634 without the spread of prev
sampledHealth_DropsPrev(prev, currentBuffer) ==
    [currentBuffer |-> currentBuffer, targetBuffer |-> 0,
     isStarving |-> currentBuffer < StarvationSeconds]

\* lines 628-634: the functional update of bufferHealth with the sample
sampledHealth(prev, currentBuffer) ==
    [prev EXCEPT !.currentBuffer = currentBuffer,
                 !.isStarving = currentBuffer < StarvationSeconds]

\* lines 614-639: the buffer monitor's interval callback, reading `element'
bufferMonitorTick(element) ==
    /\ video' = element
    /\ bufferHealth' = sampledHealth(bufferHealth, bufferedAhead(element))
    /\ obsQuality' = currentQuality
    /\ chainVisited' = {currentQuality}
    /\ lastEvent' = "buffer"
    /\ emitted' = IF bufferHealth'.isStarving /\ isPlaying
                  THEN <<LogCall("Buffer starving", "warning")>> ELSE <<>>
    /\ timerArmed' = AutoLoadArmed(isPlaying, bufferHealth')
    /\ timerDue' = FALSE
    /\ UNCHANGED <<manifest, simulated, avgBandwidth, peakBandwidth, qualityLevels,
                   currentQuality, networkCondition,
                   manualQualityOverride, switchCount, selVars, pipelineVars,
                   loadVars, ringVars>>

\* the buffer monitor fires during a session
BufferTick ==
    /\ mounted
    /\ Initialized
    /\ switchCount < MaxSwitches
    /\ \E element \in VideoSamples : bufferMonitorTick(element)

\* lines 735-742: handleQualityOverride(qualityIndex)
HandleQualityOverride ==
    /\ mounted
    /\ Initialized
    /\ switchCount < MaxSwitches
    /\ \E qualityIndex \in OverrideInputs :
          /\ manualQualityOverride' = qualityIndex
          /\ emitted' =
                IF /\ ~qualityIndex.isNull
                   /\ qualityIndex.value \in 0..Len(qualityLevels) - 1
                THEN <<LogCall("Manual quality override", "info")>>
                ELSE <<LogCall("Automatic quality selection enabled", "info")>>
    /\ obsQuality' = currentQuality
    /\ chainVisited' = {currentQuality}
    /\ lastEvent' = "override"
    /\ UNCHANGED <<manifest, simulated, avgBandwidth, peakBandwidth, qualityLevels,
                   currentQuality, networkCondition, bufferHealth,
                   switchCount, video, selVars, pipelineVars, timerArmed, timerDue,
                   loadVars, ringVars>>

\* line 665 leaving the count alone
countSwitch_Skips(count) == count

\* line 665: switchCount: prev.switchCount + 1
countSwitch(count) == count + 1

\* lines 656-673: the quality-change effect of a render
QualityChangeEffect ==
    /\ mounted
    /\ optimalQuality # currentQuality
    /\ Len(qualityLevels) > 0
    /\ currentQuality' = optimalQuality
    /\ switchCount' = countSwitch(switchCount)
    /\ chainVisited' = chainVisited \cup {optimalQuality}
    /\ lastEvent' = "effect"
    /\ emitted' = <<LogCall("Quality switch", "info")>>
    /\ timerArmed' = AutoLoadArmed(isPlaying, bufferHealth)
    /\ timerDue' = FALSE
    /\ UNCHANGED <<manifest, simulated, avgBandwidth, peakBandwidth, qualityLevels,
                   networkCondition, bufferHealth,
                   manualQualityOverride, video, obsQuality, selVars,
                   pipelineVars, loadVars, ringVars>>

Init ==
    /\ SessionInit
    /\ PipelineInit
    /\ loadCall = IdleCall
    /\ RingIdle
    /\ selPc = "idle"
    /\ selArgs = IdleArgs
    /\ selResult = 0
    /\ selReads = {}

Next ==
    \/ InitializePlayer
    \/ NetworkTick
    \/ BufferTick
    \/ HandleQualityOverride
    \/ QualityChangeEffect

Spec == Init /\ [][Next]_vars

\* React runs the effect of every committed render
FairSpec == Spec /\ WF_vars(QualityChangeEffect)

\* the session with metrics.avgBandwidth followed from its initial value
AvgInit ==
    /\ ComponentInit
    /\ manifest = MockManifest
    /\ avgBandwidth = Average(0, 1)
    /\ peakBandwidth = 0
    /\ PipelineInit
    /\ loadCall = IdleCall
    /\ RingIdle
    /\ selPc = "idle"
    /\ selArgs = IdleArgs
    /\ selResult = 0
    /\ selReads = {}

SpecAvg == AvgInit /\ [][Next]_vars

(***************************************************************************)
(* Properties of selectOptimalQuality, stated on a finished call           *)
(* (selPc = "done") in the terms of the specification: thresholds are      *)
(* written out, not taken from the operators above.                        *)
(***************************************************************************)
ArgLen == Len(selArgs.qualityLevels)

\* currentIndex clamped into [0, ladder.length - 1]
ArgClamped ==
    IF selArgs.currentQuality < 0 THEN 0
    ELSE IF selArgs.currentQuality > ArgLen - 1 THEN ArgLen - 1
    ELSE selArgs.currentQuality

\* bandwidth x (1 - packetLoss), times 1000
ArgAvail ==
    selArgs.networkCondition.bandwidth * (1000 - selArgs.networkCondition.packetLoss)

\* availableBandwidth > 0.8 x ladder[i].bandwidth
ArgSustainable(i) ==
    ArgAvail * 10 > 8 * 1000 * selArgs.qualityLevels[i + 1].bandwidth

\* availableBandwidth > 1.4 x ladder[i].bandwidth and bufferRatio > 1.2
ArgUpgradable(i) ==
    /\ ArgAvail * 10 > 14 * 1000 * selArgs.qualityLevels[i + 1].bandwidth
    /\ selArgs.bufferHealth.currentBuffer * 10 > 12 * selArgs.bufferHealth.targetBuffer

ArgEmergency == selArgs.bufferHealth.isStarving /\ ArgClamped > 0

ArgUpgradeCandidates == {i \in ArgClamped + 1..ArgLen - 1 : ArgUpgradable(i)}

ArgSustainableBelow == {i \in 0..ArgClamped - 1 : ArgSustainable(i)}

SetMax(S) == CHOOSE x \in S : \A y \in S : y <= x

\* C1: on a non-empty ladder, with isStarving = true and the clamped
\* currentIndex > 0, select returns exactly clamped currentIndex - 1, whatever
\* the bandwidth, the packet loss and the buffer ratio are.
C1_EmergencySingleStep ==
    (selPc = "done" /\ ArgLen > 0 /\ selArgs.bufferHealth.isStarving /\ ArgClamped > 0)
        => selResult = ArgClamped - 1

\* C1 witness: a starving call with an out-of-range currentIndex, a network that
\* sustains the top tier and a buffer ratio above 1.2, answered by top - 1.
C1_Witness ==
    /\ selPc = "done"
    /\ ArgLen = 3
    /\ selArgs.bufferHealth.isStarving
    /\ selArgs.currentQuality > ArgLen - 1
    /\ ArgSustainable(ArgLen - 1)
    /\ selArgs.bufferHealth.currentBuffer = 40
    /\ selResult = 1

\* C3: select returns an index above the clamped currentIndex only if that index
\* has 1.4x bandwidth headroom and bufferRatio > 1.2; and when the emergency
\* downgrade does not fire and some index above currentIndex has both, the result
\* is the highest such index.
C3_UpgradeOnlyWithHeadroom ==
    (selPc = "done" /\ ArgLen > 0) =>
        /\ selResult > ArgClamped =>
               (selResult <= ArgLen - 1 /\ ArgUpgradable(selResult))
        /\ (~ArgEmergency /\ ArgUpgradeCandidates # {}) =>
               selResult = SetMax(ArgUpgradeCandidates)

\* C3 witness: an upgrade by two tiers, past a lower tier that also qualifies.
C3_Witness ==
    /\ selPc = "done"
    /\ ArgLen = 3
    /\ selArgs.currentQuality = 0
    /\ ArgUpgradable(1)
    /\ ArgUpgradable(2)
    /\ selResult = 2

\* C4 as stated: with no emergency downgrade and no index above currentIndex
\* qualifying for upgrade, select returns currentIndex iff
\* availableBandwidth > 0.8 x ladder[currentIndex].bandwidth.
C4_StayIffSustainable ==
    (selPc = "done" /\ ArgLen > 0 /\ ~ArgEmergency /\ ArgUpgradeCandidates = {}) =>
        (selResult = ArgClamped <=> ArgSustainable(ArgClamped))

\* C4 amended: with no emergency downgrade and no index above currentIndex
\* qualifying for upgrade, select returns currentIndex iff
\* availableBandwidth > 0.8 x ladder[currentIndex].bandwidth or currentIndex is 0
\* (the fallback returns tier 0 even when tier 0 is not sustainable).
C4_StayIffSustainableOrLowest ==
    (selPc = "done" /\ ArgLen > 0 /\ ~ArgEmergency /\ ArgUpgradeCandidates = {}) =>
        (selResult = ArgClamped <=> (ArgSustainable(ArgClamped) \/ ArgClamped = 0))

\* C4 witness: currentIndex 0 of three tiers is not sustainable, nothing above
\* qualifies, and select still returns 0.
C4_Witness ==
    /\ selPc = "done"
    /\ ArgLen = 3
    /\ ~ArgEmergency
    /\ ArgUpgradeCandidates = {}
    /\ ArgClamped = 0
    /\ ~ArgSustainable(0)
    /\ selResult = 0

\* C5: with no emergency downgrade, no index above currentIndex qualifying for
\* upgrade and the current tier not sustainable, select returns the highest
\* index below currentIndex whose bandwidth x 0.8 is below availableBandwidth,
\* and 0 when there is none (even if tier 0 is not sustainable).
C5_DowngradeToHighestSustainable ==
    (/\ selPc = "done"
     /\ ArgLen > 0
     /\ ~ArgEmergency
     /\ ArgUpgradeCandidates = {}
     /\ ~ArgSustainable(ArgClamped)) =>
        selResult = IF ArgSustainableBelow # {} THEN SetMax(ArgSustainableBelow) ELSE 0

\* C5 witness: from the top of three tiers, with tier 1 exactly at its 0.8
\* threshold (so not sustainable) and tier 0 sustainable, select returns 0.
C5_Witness ==
    /\ selPc = "done"
    /\ ArgLen = 3
    /\ ~ArgEmergency
    /\ ArgClamped = 2
    /\ ~ArgSustainable(2)
    /\ ArgAvail * 10 = 8 * 1000 * selArgs.qualityLevels[2].bandwidth
    /\ ArgSustainable(0)
    /\ selResult = 0

\* C6: for every non-empty ladder and every integer currentIndex, negative or
\* >= ladder.length included, select returns an index in [0, ladder.length - 1]
\* and reads the ladder only inside its bounds; for an empty ladder it returns 0.
C6_ResultInBounds ==
    selPc = "done" =>
        /\ ArgLen = 0 => selResult = 0
        /\ ArgLen > 0 => selResult \in 0..ArgLen - 1
        /\ selReads \subseteq 0..ArgLen - 1

\* C6 witness: a call whose currentIndex is two past the end of a three-tier
\* ladder, answered by the top tier after reading only that tier.
C6_Witness ==
    /\ selPc = "done"
    /\ ArgLen = 3
    /\ selArgs.currentQuality = ArgLen + 1
    /\ ~selArgs.bufferHealth.isStarving
    /\ selResult = 2
    /\ selReads = {2}

(***************************************************************************)
(* Properties of the session control loop.                                 *)
(***************************************************************************)
LadderIndices == 0..Len(qualityLevels) - 1

\* C2: under automatic selection, while the buffer is starving, the active
\* quality index is at most one tier below the index it had at the last
\* network/buffer observation (or override command): from an index >= 2 the
\* lowest tier is not reached without a further observation.
C2_SingleStepPerObservation ==
    (/\ Len(qualityLevels) > 0
     /\ manualQualityOverride.isNull
     /\ bufferHealth.isStarving
     /\ obsQuality \in LadderIndices) =>
        currentQuality >= obsQuality - 1

\* C8: with a manual override set and a non-empty ladder the target quality is
\* the override index; no step taken while the override stays set moves the
\* active index anywhere but onto the override index, so once equal it stays
\* equal through every network and buffer sample; and the active index does
\* become equal to it unless the override is changed first.
C8_OverrideWins ==
    /\ []((~manualQualityOverride.isNull /\ Len(qualityLevels) > 0) =>
             optimalQuality = manualQualityOverride.value)
    /\ [][(/\ ~manualQualityOverride.isNull
           /\ manualQualityOverride' = manualQualityOverride
           /\ Len(qualityLevels) > 0) =>
             currentQuality' \in {currentQuality, manualQualityOverride.value}]_vars
    /\ \A q \in -1..MaxOverrideIndex :
          (manualQualityOverride = Override(q) /\ Len(qualityLevels) > 0)
              ~> (currentQuality = q \/ manualQualityOverride # Override(q))

\* C8 witness: a buffer sample has just reported starvation while the override
\* pins the top tier, the active index is the override, and the automatic
\* selector would have chosen another index.
C8_Witness ==
    /\ lastEvent = "buffer"
    /\ bufferHealth.isStarving
    /\ manualQualityOverride = Override(3)
    /\ currentQuality = 3
    /\ selectOptimalQuality(qualityLevels, networkCondition, bufferHealth,
                            currentQuality) # 3

\* C9: with a non-empty ladder the active quality index is an index of the ladder.
C9_ActiveIndexInLadder ==
    Len(qualityLevels) > 0 => currentQuality \in LadderIndices

\* C10: a manual override that is set is an index of the ladder.
C10_OverrideInLadder ==
    ~manualQualityOverride.isNull => manualQualityOverride.value \in LadderIndices

(***************************************************************************)
(* loadSegment (App.tsx 241-280).  One call is a record: the arguments,    *)
(* the loop counter, the position (awaiting the request's timer, awaiting  *)
(* the backoff timer, returned), the outcome of every attempt made, every  *)
(* backoff wait started, and the value returned.  The 5 % failure draw of  *)
(* line 253 is an input of the step that settles the request.  The         *)
(* request's own delay (latency plus jitter, line 250) is not measured.    *)
(***************************************************************************)
MaxRetries == 4

DefaultRetries == 3
BackoffBaseMs == 1000
SegmentsPerLevel == 3

\* the segment URLs of the mock playlists (lines 15-56), by level and position
SegmentUrls == [quality : 0..Len(MockLadder) - 1, index : 0..SegmentsPerLevel - 1]

\* line 257 with the error of the call kept as well
SuccessResult_KeepsError(segmentUrl) ==
    [success |-> TRUE, data |-> Present(segmentUrl),
     error |-> Present([message |-> "Network error loading", attempts |-> 0,
                        cause |-> 0])]

\* line 257: { success: true, data: mockData }
SuccessResult(segmentUrl) ==
    [success |-> TRUE, data |-> Present(segmentUrl), error |-> Absent]

\* lines 264-267: the failure quotes the retry count and the error of the
\* attempt that raised it
FailureResult(retries, attempt) ==
    [success |-> FALSE, data |-> Absent,
     error |-> Present([message |-> "Failed to load after attempts",
                        attempts |-> retries, cause |-> attempt])]

\* line 279
UnexpectedResult ==
    [success |-> FALSE, data |-> Absent,
     error |-> Present([message |-> "Unexpected error in retry loop",
                        attempts |-> 0, cause |-> -1])]

\* line 263 comparing against retries
IsLastAttempt_OffByOne(call) == call.attempt = call.retries

\* line 263: attempt === retries - 1
IsLastAttempt(call) == call.attempt = call.retries - 1

\* line 275 growing linearly
BackoffMs_Linear(attempt) == (attempt + 1) * BackoffBaseMs

\* line 275: Math.pow(2, attempt) * 1000
BackoffMs(attempt) == (2 ^ attempt) * BackoffBaseMs

\* lines 241-247: the call, up to its first await
loadSegment(segmentUrl, retries) ==
    IF 0 < retries
    THEN [IdleCall EXCEPT !.url = segmentUrl, !.retries = retries,
                          !.pc = "request"]
    ELSE [IdleCall EXCEPT !.url = segmentUrl, !.retries = retries,
                          !.pc = "returned", !.result = UnexpectedResult]

\* lines 250-276: the request's timer fires and the attempt succeeds or throws
requestSettles(call, fails) ==
    LET tried == [call EXCEPT
                     !.outcomes = Append(@, IF fails THEN "error" ELSE "ok")]
    IN  IF ~fails
        THEN [tried EXCEPT !.pc = "returned", !.result = SuccessResult(call.url)]
        ELSE IF IsLastAttempt(call)
        THEN [tried EXCEPT !.pc = "returned",
                           !.result = FailureResult(call.retries, call.attempt)]
        ELSE [tried EXCEPT !.pc = "backoff",
                           !.waits = Append(@, [after |-> call.attempt,
                                                ms |-> BackoffMs(call.attempt)])]

\* lines 246, 275-279: the backoff timer fires and the loop goes on or ends
backoffElapses(call) ==
    IF call.attempt + 1 < call.retries
    THEN [call EXCEPT !.attempt = @ + 1, !.pc = "request"]
    ELSE [call EXCEPT !.attempt = @ + 1, !.pc = "returned",
                      !.result = UnexpectedResult]

LoadRequestSettles ==
    /\ loadCall.pc = "request"
    /\ \E fails \in BOOLEAN : loadCall' = requestSettles(loadCall, fails)
    /\ UNCHANGED <<sessionVars, selVars, pipelineVars, timerArmed, timerDue,
                   emitted, ringVars>>

LoadBackoffElapses ==
    /\ loadCall.pc = "backoff"
    /\ loadCall' = backoffElapses(loadCall)
    /\ UNCHANGED <<sessionVars, selVars, pipelineVars, timerArmed, timerDue,
                   emitted, ringVars>>

LoadInit ==
    /\ SessionInit
    /\ PipelineInit
    /\ RingIdle
    /\ selPc = "idle"
    /\ selArgs = IdleArgs
    /\ selResult = 0
    /\ selReads = {}
    /\ \E segmentUrl \in SegmentUrls, retries \in 0..MaxRetries :
          loadCall = loadSegment(segmentUrl, retries)

LoadNext == LoadRequestSettles \/ LoadBackoffElapses

\* a pending setTimeout always fires
SpecLoad == LoadInit /\ [][LoadNext]_vars /\ WF_vars(LoadNext)

(***************************************************************************)
(* Properties of one loadSegment call.                                     *)
(***************************************************************************)
AllAttemptsFailed(call) ==
    \A k \in 1..Len(call.outcomes) : call.outcomes[k] = "error"

\* C11: a call with maxRetries = N >= 1 whose attempts all fail makes exactly N
\* attempts, waits 2^k x 1000 ms after failed attempt k for k = 0..N-2 and not
\* after the last one, and returns the failure that quotes the last attempt's
\* error.
C11_ExponentialBackoffSchedule ==
    (/\ loadCall.pc = "returned"
     /\ loadCall.retries >= 1
     /\ AllAttemptsFailed(loadCall))
    => /\ Len(loadCall.outcomes) = loadCall.retries
       /\ loadCall.waits =
             [k \in 1..loadCall.retries - 1 |->
                 [after |-> k - 1, ms |-> (2 ^ (k - 1)) * 1000]]
       /\ ~loadCall.result.success
       /\ loadCall.result.error =
             <<[message |-> "Failed to load after attempts",
                attempts |-> loadCall.retries, cause |-> loadCall.retries - 1]>>

C11_Witness ==
    /\ loadCall.pc = "returned"
    /\ loadCall.retries = 4
    /\ loadCall.outcomes = <<"error", "error", "error", "error">>
    /\ Len(loadCall.waits) = 3
    /\ loadCall.waits[3].ms = 4000

\* C15: a returned call carries either success with the payload and no error,
\* or failure with an error and no payload; it is a success exactly when one of
\* the first maxRetries attempts succeeded; and a successful attempt is the
\* last thing the call does: no attempt and no backoff follows it.
C15_ResultShape ==
    /\ loadCall.pc = "returned" =>
          /\ \/ /\ loadCall.result.success
                /\ loadCall.result.data = <<loadCall.url>>
                /\ loadCall.result.error = <<>>
             \/ /\ ~loadCall.result.success
                /\ loadCall.result.data = <<>>
                /\ Len(loadCall.result.error) = 1
          /\ loadCall.result.success <=>
                \E k \in 1..Min(Len(loadCall.outcomes), loadCall.retries) :
                    loadCall.outcomes[k] = "ok"
    /\ \A k \in 1..Len(loadCall.outcomes) :
          loadCall.outcomes[k] = "ok" =>
             /\ k = Len(loadCall.outcomes)
             /\ loadCall.pc = "returned"
             /\ Len(loadCall.waits) = k - 1

C15_Witness ==
    /\ loadCall.pc = "returned"
    /\ loadCall.retries = 3
    /\ loadCall.outcomes = <<"error", "ok">>
    /\ loadCall.result.success
    /\ Len(loadCall.waits) = 1

\* C16, as stated: at most maxRetries attempts and at most maxRetries - 1
\* backoff waits, for every maxRetries >= 0.
C16_BackoffsBelowRetries ==
    /\ Len(loadCall.outcomes) <= loadCall.retries
    /\ Len(loadCall.waits) <= loadCall.retries - 1

\* C16: for every maxRetries >= 0 and every pattern of outcomes the call makes
\* at most maxRetries attempts and at most max(0, maxRetries - 1) backoff
\* waits, and it returns.
C16_BoundedAndTerminates ==
    /\ [](/\ Len(loadCall.outcomes) <= loadCall.retries
          /\ Len(loadCall.waits) <= Max(0, loadCall.retries - 1))
    /\ <>(loadCall.pc = "returned")

C16_Witness ==
    /\ loadCall.pc = "returned"
    /\ loadCall.retries = 0
    /\ Len(loadCall.outcomes) = 0
    /\ Len(loadCall.waits) = 0
    /\ ~loadCall.result.success

(***************************************************************************)
(* The segment pipeline of the session: play and pause, the MediaSource    *)
(* events, the auto-load timer, loadNextSegment and the effect cleanups.   *)
(*                                                                         *)
(* Every state change re-renders the component; a render that changes a    *)
(* dependency of the auto-load effect (lines 711-716) clears the pending   *)
(* timer and arms a new one around the loadNextSegment of that render, so  *)
(* the timer's callback reads the state of the latest render.  An          *)
(* invocation of loadNextSegment that is awaiting loadSegment keeps the    *)
(* quality and the cursor it read when it started (its closure); what it   *)
(* does after the await is written here as the source writes it: the       *)
(* functional updates of lines 695 and 700 read the cell's latest value.   *)
(* loadSegment returning and loadNextSegment resuming from its await are   *)
(* two steps; the await of Blob.arrayBuffer (line 692) on the in-memory    *)
(* blob is part of the second.  Each step leaves in `emitted' the logEvent *)
(* calls it made; the rings those calls fill are modelled by logEvent      *)
(* below.                                                                  *)
(***************************************************************************)
MaxInflight == 2
MaxDropped == 2

\* line 677 without the loading test
slotFree_IgnoresLoading(isLoading) == TRUE

\* line 677: the in-flight gate of loadNextSegment
slotFree(isLoading) == ~isLoading

\* line 682 with the bound one too far
hasSegment_OffByOne(index) == index <= SegmentsPerLevel

\* lines 681-682: quality.segments[currentSegmentIndex] is defined
hasSegment(index) == index < SegmentsPerLevel

\* line 700 leaving the count alone
countDrop_Skips(count) == count

\* line 700: droppedFrames: prev.droppedFrames + 1
countDrop(count) == count + 1

\* line 677: qualityLevels[currentQuality] is defined
ActiveQualityDefined == currentQuality \in 0..Len(qualityLevels) - 1

\* lines 719-725: handlePlay
HandlePlay ==
    /\ mounted
    /\ Initialized
    /\ isPlaying' = TRUE
    /\ emitted' = <<LogCall("Playback started", "info")>>
    /\ timerArmed' = IF isPlaying THEN timerArmed
                     ELSE AutoLoadArmed(TRUE, bufferHealth)
    /\ timerDue' = IF isPlaying THEN timerDue ELSE FALSE
    /\ UNCHANGED <<sessionVars, selVars, loading, currentSegmentIndex,
                   droppedFrames, sourceBuffer, mounted, fetches, loadVars,
                   ringVars>>

\* lines 727-733: handlePause
HandlePause ==
    /\ mounted
    /\ Initialized
    /\ isPlaying' = FALSE
    /\ emitted' = <<LogCall("Playback paused", "info")>>
    /\ timerArmed' = FALSE
    /\ timerDue' = FALSE
    /\ UNCHANGED <<sessionVars, selVars, loading, currentSegmentIndex,
                   droppedFrames, sourceBuffer, mounted, fetches, loadVars,
                   ringVars>>

\* lines 550-563: handleSourceOpen, on the MediaSource's sourceopen event;
\* addSourceBuffer('video/mp2t') returns a buffer or throws
SourceOpen ==
    /\ Initialized
    /\ sourceBuffer.mediaSource = "closed"
    /\ \E supported \in BOOLEAN :
          /\ sourceBuffer' = [mediaSource |-> "open", attached |-> supported,
                              updating |-> FALSE]
          /\ emitted' = IF supported
                        THEN <<LogCall("MediaSource initialized", "info")>>
                        ELSE <<LogCall("MediaSource setup failed", "error")>>
    /\ UNCHANGED <<sessionVars, selVars, isPlaying, loading, currentSegmentIndex,
                   droppedFrames, mounted, timerArmed, timerDue, fetches, loadVars,
                   ringVars>>

\* lines 566-580: the SourceBuffer finishes an append and fires updateend
UpdateEnd ==
    /\ sourceBuffer.updating
    /\ sourceBuffer' = [sourceBuffer EXCEPT !.updating = FALSE]
    /\ emitted' = <<>>
    /\ UNCHANGED <<sessionVars, selVars, isPlaying, loading, currentSegmentIndex,
                   droppedFrames, mounted, timerArmed, timerDue, fetches, loadVars,
                   ringVars>>

\* lines 676-689: the auto-load timer fires and calls loadNextSegment, which
\* returns early, reports the end of the stream, or takes the slot and calls
\* loadSegment
\* line 713: the 1000 ms of the pending setTimeout pass without the effect
\* having been cleaned up
TimerElapses ==
    /\ mounted
    /\ timerArmed
    /\ ~timerDue
    /\ timerDue' = TRUE
    /\ emitted' = <<>>
    /\ UNCHANGED <<sessionVars, selVars, pipelineVars, timerArmed, loadVars,
                   ringVars>>

\* lines 679-680 with a cursor of its own for every quality level, which a
\* switch starts at 0
segmentAt_RestartsAtSwitch(quality, index) ==
    [quality |-> quality, index |-> IF quality = 0 THEN index ELSE 0]

\* lines 679-680: qualityLevels[currentQuality].segments[currentSegmentIndex],
\* a segment URL by the level and the position it names
segmentAt(quality, index) == [quality |-> quality, index |-> index]

\* lines 676-687: the timeout runs loadNextSegment up to its await
FetchTrigger ==
    /\ mounted
    /\ timerArmed
    /\ timerDue
    /\ IF ~ActiveQualityDefined \/ ~sourceBuffer.attached \/ ~slotFree(loading)
       THEN /\ timerArmed' = FALSE
            /\ timerDue' = FALSE
            /\ emitted' = <<>>
            /\ UNCHANGED <<loading, fetches>>
       ELSE IF ~hasSegment(currentSegmentIndex)
       THEN /\ timerArmed' = FALSE
            /\ timerDue' = FALSE
            /\ emitted' = <<LogCall("Reached end of stream", "info")>>
            /\ UNCHANGED <<loading, fetches>>
       ELSE /\ Len(fetches) < MaxInflight
            /\ loading' = TRUE
            /\ LET segmentUrl == segmentAt(currentQuality, currentSegmentIndex)
               IN  fetches' = Append(fetches,
                      [quality |-> segmentUrl.quality, index |-> segmentUrl.index,
                       call |-> loadSegment(segmentUrl, DefaultRetries)])
            /\ timerArmed' = AutoLoadArmed(isPlaying, bufferHealth)
            /\ timerDue' = FALSE
            /\ emitted' = <<>>
    /\ UNCHANGED <<sessionVars, selVars, isPlaying, currentSegmentIndex,
                   droppedFrames, sourceBuffer, mounted, loadVars, ringVars>>

Remove(seq, i) == SubSeq(seq, 1, i - 1) \o SubSeq(seq, i + 1, Len(seq))

\* lines 688-707: loadNextSegment after its await of loadSegment; appendBuffer
\* appends or throws
resumeAfterLoad(i, result, appendThrows) ==
    /\ fetches' = Remove(fetches, i)
    /\ loading' = FALSE
    /\ timerArmed' = (mounted /\ AutoLoadArmed(isPlaying, bufferHealth))
    /\ timerDue' = FALSE
    /\ IF result.success /\ result.data # Absent
          /\ sourceBuffer.attached /\ ~sourceBuffer.updating
       THEN IF appendThrows
            THEN /\ emitted' = <<LogCall("Segment loading error", "error")>>
                 /\ UNCHANGED <<sourceBuffer, currentSegmentIndex, droppedFrames>>
            ELSE /\ sourceBuffer' = [sourceBuffer EXCEPT !.updating = TRUE]
                 /\ currentSegmentIndex' = currentSegmentIndex + 1
                 /\ emitted' = <<LogCall("Loaded segment", "info")>>
                 /\ UNCHANGED droppedFrames
       ELSE IF ~result.success
       THEN /\ emitted' = <<LogCall("Segment load failed", "error")>>
            /\ droppedFrames' = countDrop(droppedFrames)
            /\ UNCHANGED <<sourceBuffer, currentSegmentIndex>>
       ELSE /\ emitted' = <<>>
            /\ UNCHANGED <<sourceBuffer, currentSegmentIndex, droppedFrames>>

\* lines 250-276 inside loadNextSegment's await
FetchRequestSettles ==
    /\ \E i \in 1..Len(fetches), fails \in BOOLEAN :
          /\ fetches[i].call.pc = "request"
          /\ (fails /\ IsLastAttempt(fetches[i].call)) => droppedFrames < MaxDropped
          /\ fetches' = [fetches EXCEPT ![i].call = requestSettles(@, fails)]
    /\ emitted' = <<>>
    /\ UNCHANGED <<sessionVars, selVars, isPlaying, loading, currentSegmentIndex,
                   droppedFrames, sourceBuffer, mounted, timerArmed, timerDue, loadVars,
                   ringVars>>

\* lines 275-279 inside loadNextSegment's await
FetchBackoffElapses ==
    /\ \E i \in 1..Len(fetches) :
          /\ fetches[i].call.pc = "backoff"
          /\ fetches' = [fetches EXCEPT ![i].call = backoffElapses(@)]
    /\ emitted' = <<>>
    /\ UNCHANGED <<sessionVars, selVars, isPlaying, loading, currentSegmentIndex,
                   droppedFrames, sourceBuffer, mounted, timerArmed, timerDue, loadVars,
                   ringVars>>

\* lines 688-707: loadSegment has returned and loadNextSegment resumes
FetchResumes ==
    /\ \E i \in 1..Len(fetches), appendThrows \in BOOLEAN :
          /\ fetches[i].call.pc = "returned"
          /\ resumeAfterLoad(i, fetches[i].call.result, appendThrows)
    /\ UNCHANGED <<sessionVars, selVars, isPlaying, mounted, loadVars, ringVars>>

\* lines 584-587, 605-607, 642-644, 714: the component unmounts and every
\* effect cleanup runs
Unmount ==
    /\ mounted
    /\ Initialized
    /\ mounted' = FALSE
    /\ timerArmed' = FALSE
    /\ timerDue' = FALSE
    /\ emitted' = <<>>
    /\ UNCHANGED <<sessionVars, selVars, isPlaying, loading, currentSegmentIndex,
                   droppedFrames, sourceBuffer, fetches, loadVars, ringVars>>

FetchNext ==
    \/ InitializePlayer
    \/ FetchNetworkTick
    \/ BufferTick
    \/ QualityChangeEffect
    \/ HandlePlay
    \/ HandlePause
    \/ SourceOpen
    \/ UpdateEnd
    \/ TimerElapses
    \/ FetchTrigger
    \/ FetchRequestSettles
    \/ FetchBackoffElapses
    \/ FetchResumes
    \/ Unmount

SpecFetch == Init /\ [][FetchNext]_vars

(***************************************************************************)
(* Properties of the segment pipeline.                                     *)
(***************************************************************************)
\* invocation i of loadNextSegment was started for a quality that is no longer
\* the active one
StaleFetch(i) == fetches[i].quality # currentQuality

\* invocation i resumes from its await in this step
Resumes(i) ==
    /\ fetches[i].call.pc = "returned"
    /\ fetches' = Remove(fetches, i)

\* C12: once the active quality differs from the quality a fetch was started
\* for, that fetch starts no further attempt and its result is not applied:
\* nothing is appended and the cursor does not advance.
C12_SwitchInvalidatesRetries ==
    [][\A i \in 1..Len(fetches) :
          StaleFetch(i) =>
             /\ ~(/\ fetches[i].call.pc = "backoff"
                  /\ Len(fetches') >= i
                  /\ fetches'[i].call.pc = "request")
             /\ Resumes(i) =>
                   /\ currentSegmentIndex' = currentSegmentIndex
                   /\ sourceBuffer' = sourceBuffer]_vars

\* C13: at most one segment fetch is outstanding, whatever the interleaving of
\* timers, ticks, quality switches and completions; the loading flag is set
\* while it is.
C13_SingleSlot ==
    /\ Len(fetches) <= 1
    /\ Len(fetches) = 1 => loading

C13_Witness ==
    /\ Len(fetches) = 1
    /\ fetches[1].call.pc = "backoff"
    /\ StaleFetch(1)
    /\ timerArmed
    /\ currentSegmentIndex = 1

\* C14: after teardown the network sampler, the buffer sampler and the fetch
\* trigger do not fire, and a fetch that was in flight writes nothing when it
\* completes: no cursor advance, no log entry, no metrics change, no change of
\* the loading flag.
C14_TeardownStopsEverything ==
    [][~mounted =>
          /\ UNCHANGED <<networkCondition, bufferHealth>>
          /\ Len(fetches') <= Len(fetches)
          /\ \A i \in 1..Len(fetches) :
                Resumes(i) =>
                   /\ UNCHANGED <<currentSegmentIndex, droppedFrames, loading>>
                   /\ emitted' = <<>>]_vars

\* invocation i resumes in this step from a loadSegment that returned failure
ResumesFromFailure(i) ==
    /\ Resumes(i)
    /\ ~fetches[i].call.result.success

\* invocation i resumes in this step from a loadSegment that returned success
ResumesFromSuccess(i) ==
    /\ Resumes(i)
    /\ fetches[i].call.result.success

\* C17: a fetch that ends in terminal failure adds exactly one to the dropped
\* count, records exactly one entry, of error severity, and leaves the cursor
\* where it was; and the dropped count changes in no other step.
C17_FailureCountsOneDrop ==
    [][/\ \A i \in 1..Len(fetches) :
             ResumesFromFailure(i) =>
                /\ droppedFrames' = droppedFrames + 1
                /\ Len(emitted') = 1
                /\ emitted'[1].type = "error"
                /\ currentSegmentIndex' = currentSegmentIndex
       /\ droppedFrames' # droppedFrames =>
             \E i \in 1..Len(fetches) : ResumesFromFailure(i)]_vars

C17_Witness ==
    /\ droppedFrames = 1
    /\ currentSegmentIndex = 1
    /\ fetches = <<>>
    /\ ~loading
    /\ emitted = <<[message |-> "Segment load failed", type |-> "error"]>>

\* C18: every fetch that returns success advances the cursor by exactly one;
\* at the least, no success leaves the cursor unchanged with nothing recorded.
C18_NoSilentSuccess ==
    [][\A i \in 1..Len(fetches) :
          ResumesFromSuccess(i) =>
             \/ currentSegmentIndex' = currentSegmentIndex + 1
             \/ emitted' # <<>>]_vars

\* the cursor is at the end of the active quality's segment list
AtEndOfStream ==
    /\ ActiveQualityDefined
    /\ currentSegmentIndex = 3

\* C19: with the cursor at the end of the active quality's segment list, the
\* fetch trigger starts no fetch and records exactly the end-of-stream entry,
\* at info severity, leaving the dropped count, the cursor and the loading
\* flag unchanged; and no step taken from such a state starts a fetch.
C19_EndOfStreamIsInformational ==
    [][AtEndOfStream =>
          /\ Len(fetches') <= Len(fetches)
          /\ FetchTrigger =>
                /\ emitted' = <<[message |-> "Reached end of stream",
                                type |-> "info"]>>
                /\ UNCHANGED <<fetches, droppedFrames, currentSegmentIndex,
                               loading>>]_vars

C19_Witness ==
    /\ AtEndOfStream
    /\ mounted
    /\ isPlaying
    /\ ~timerArmed
    /\ fetches = <<>>
    /\ emitted = <<[message |-> "Reached end of stream", type |-> "info"]>>

(***************************************************************************)
(* logEvent (App.tsx 490-515) and the two rings it fills.  An entry is     *)
(* kept as the ordinal of the call that made it (the source's id is a      *)
(* timestamp with a random suffix, unique per call) and its severity.      *)
(* The severities of a run are an input: a short pattern, repeated.        *)
(***************************************************************************)
MaxRecords == 54
MaxPatternLen == 2

LogsKept == 49
BufferEventsKept == 19

LogTypes == {"info", "warning", "error"}

SeverityPatterns ==
    UNION {[1..n -> LogTypes] : n \in 1..MaxPatternLen}

\* slice(-n) keeping the oldest n elements instead
sliceLast_KeepsOldest(seq, n) ==
    IF Len(seq) <= n THEN seq ELSE SubSeq(seq, 1, n)

\* Array.prototype.slice(-n): the last n elements, or all when there are fewer
sliceLast(seq, n) ==
    IF Len(seq) <= n THEN seq ELSE SubSeq(seq, Len(seq) - n + 1, Len(seq))

\* line 501 testing for error alone
IsBufferEvent_ErrorOnly(entry) == entry.type = "error"

\* line 501
IsBufferEvent(entry) == entry.type \in {"warning", "error"}

\* lines 490-514: one call of logEvent
LogEvent ==
    /\ Len(recorded) < MaxRecords
    /\ LET type == severities[(Len(recorded) % Len(severities)) + 1]
           logEntry == [id |-> Len(recorded) + 1, type |-> type]
       IN  /\ recorded' = Append(recorded, logEntry)
           /\ logs' = Append(sliceLast(logs, LogsKept), logEntry)
           /\ bufferEvents' =
                 IF IsBufferEvent(logEntry)
                 THEN Append(sliceLast(bufferEvents, BufferEventsKept), logEntry)
                 ELSE bufferEvents
    /\ UNCHANGED <<sessionVars, selVars, pipelineVars, timerArmed, timerDue, emitted,
                   loadVars, severities>>

LogInit ==
    /\ SessionInit
    /\ PipelineInit
    /\ selPc = "idle"
    /\ selArgs = IdleArgs
    /\ selResult = 0
    /\ selReads = {}
    /\ loadCall = IdleCall
    /\ logs = <<>>
    /\ bufferEvents = <<>>
    /\ recorded = <<>>
    /\ severities \in SeverityPatterns

LogNext == LogEvent

SpecLog == LogInit /\ [][LogNext]_vars

\* severity warning or error
IsWarningOrError(entry) == entry.type = "warning" \/ entry.type = "error"

\* the last k elements of seq, all of them when there are fewer
LastOf(seq, k) == SubSeq(seq, Len(seq) - Min(Len(seq), k) + 1, Len(seq))

\* C20: after n recorded entries the log ring holds exactly the last
\* min(n, 50) of them in the order recorded, and after m warning or error
\* entries the buffer-event ring holds exactly the last min(m, 20) of those;
\* neither ring exceeds its capacity, so the oldest entry is the one evicted.
C20_RingsHoldTheLatest ==
    /\ logs = LastOf(recorded, 50)
    /\ bufferEvents = LastOf(SelectSeq(recorded, IsWarningOrError), 20)
    /\ Len(logs) <= 50
    /\ Len(bufferEvents) <= 20

C20_Witness ==
    /\ Len(recorded) = 53
    /\ Len(logs) = 50
    /\ logs[1].id = 4
    /\ Len(bufferEvents) = 20
    /\ bufferEvents[1].id = 15
    /\ bufferEvents[20].id = 53

Entries(seq) == {seq[k] : k \in 1..Len(seq)}

\* C21: a record of any severity appends exactly one entry, the new one, to
\* the log ring; it appends that entry to the buffer-event ring when its
\* severity is warning or error, and leaves that ring unchanged when it is
\* info.
C21_RecordAppendRule ==
    [][recorded' # recorded =>
          LET entry == recorded'[Len(recorded')]
          IN  /\ Entries(logs') \ Entries(logs) = {entry}
              /\ logs'[Len(logs')] = entry
              /\ IF IsWarningOrError(entry)
                 THEN /\ Entries(bufferEvents') \ Entries(bufferEvents) = {entry}
                      /\ bufferEvents'[Len(bufferEvents')] = entry
                 ELSE bufferEvents' = bufferEvents]_vars

C21_Witness ==
    /\ Len(recorded) = 4
    /\ recorded[4].type = "info"
    /\ recorded[3].type = "warning"
    /\ logs[4] = recorded[4]
    /\ bufferEvents = <<recorded[1], recorded[3]>>

\* C22: the switch count starts at zero, goes up by exactly one, together with
\* exactly one entry of info severity, in every step that changes the active
\* quality index, and is unchanged by every other step; so it always equals
\* the number of changes of the index.
C22_SwitchCountTracksChanges ==
    /\ switchCount = 0
    /\ [][IF currentQuality' # currentQuality
          THEN /\ switchCount' = switchCount + 1
               /\ Len(emitted') = 1
               /\ emitted'[1].type = "info"
          ELSE switchCount' = switchCount]_vars

C22_Witness ==
    /\ switchCount = 2
    /\ lastEvent = "effect"
    /\ currentQuality = 1
    /\ obsQuality = 2
    /\ emitted = <<[message |-> "Quality switch", type |-> "info"]>>

\* C23: in every state of the session, the initial one included, isStarving
\* is the truth of currentBuffer < 5.
C23_StarvingIffBelowThreshold ==
    bufferHealth.isStarving <=> (bufferHealth.currentBuffer < 5)

(***************************************************************************)
(* The buffer monitor over the states a video element can show:            *)
(* video.buffered is a normalized TimeRanges object, its ranges ascending  *)
(* and apart, and currentTime is any time of the grid.                     *)
(***************************************************************************)
MaxTime == 5
MaxRanges == 2

Times == 0..MaxTime

IsNormalized(ranges) ==
    /\ \A k \in 1..Len(ranges) : ranges[k].start < ranges[k].end
    /\ \A k \in 1..Len(ranges) - 1 : ranges[k].end < ranges[k + 1].start

TimeRangesSamples ==
    {ranges \in UNION {[1..n -> [start : Times, end : Times]] : n \in 0..MaxRanges} :
        IsNormalized(ranges)}

VideoStates == [buffered : TimeRangesSamples, currentTime : Times]

MonitorTick ==
    /\ mounted
    /\ \E element \in VideoStates : bufferMonitorTick(element)

MonNext == MonitorTick

SpecMon == Init /\ [][MonNext]_vars

\* the ranges of the element that contain its playhead
RangesAtCursor ==
    {k \in 1..Len(video.buffered) :
        /\ video.buffered[k].start <= video.currentTime
        /\ video.currentTime <= video.buffered[k].end}

\* C24: after a buffer update currentBuffer is end - cursor for the first
\* buffered range [start, end] with start <= cursor <= end, it is 0 when no
\* range contains the cursor, and it is never negative.
C24_BufferAheadOfCursor ==
    lastEvent = "buffer" =>
       /\ RangesAtCursor = {} => bufferHealth.currentBuffer = 0
       /\ RangesAtCursor # {} =>
             LET first == CHOOSE k \in RangesAtCursor :
                              \A j \in RangesAtCursor : k <= j
             IN  bufferHealth.currentBuffer =
                    video.buffered[first].end - video.currentTime
       /\ bufferHealth.currentBuffer >= 0

C24_Witness ==
    /\ lastEvent = "buffer"
    /\ video = [buffered |-> <<[start |-> 0, end |-> 1], [start |-> 2, end |-> 5]>>,
                currentTime |-> 2]
    /\ bufferHealth.currentBuffer = 3
    /\ bufferHealth.isStarving

(***************************************************************************)
(* parseHLSManifest and initializePlayer over master playlists other than  *)
(* the mock one: every playlist of up to MaxManifestLines lines drawn      *)
(* from LineSamples is initialized once.                                   *)
(***************************************************************************)
MaxManifestLines == 4

\* blank line, header, three playlist references (one not in
\* MOCK_SEGMENT_PLAYLISTS), two complete stream-info tags, and tags without a
\* BANDWIDTH or without a RESOLUTION attribute
LineSamples ==
    {Blank, Tag("#EXTM3U"),
     Uri("stream_360p.m3u8"), Uri("stream_480p.m3u8"), Uri("stream_missing.m3u8"),
     StreamInf(<<Bandwidth(80), Resolution("640x360")>>),
     StreamInf(<<Bandwidth(140), Resolution("854x480")>>),
     StreamInf(<<Resolution("640x360")>>),
     StreamInf(<<Bandwidth(80)>>),
     StreamInf(<<AverageBandwidth(70), Resolution("640x360")>>)}

ManifestSamples == UNION {[1..n -> LineSamples] : n \in 0..MaxManifestLines}

ParseInit ==
    /\ ComponentInit
    /\ manifest \in ManifestSamples
    /\ avgBandwidth = Untracked
    /\ peakBandwidth = 0
    /\ PipelineInit
    /\ loadCall = IdleCall
    /\ RingIdle
    /\ selPc = "idle"
    /\ selArgs = IdleArgs
    /\ selResult = 0
    /\ selReads = {}

ParseNext == InitializePlayer

SpecParse == ParseInit /\ [][ParseNext]_vars

\* the lines of the session's manifest that count: blank lines are dropped
ManifestLines == splitLines(manifest)

\* the stream-info entries of the manifest that have a line after them
StreamInfEntries ==
    {i \in 1..Len(ManifestLines) :
        ManifestLines[i].kind = "streamInf" /\ i + 1 <= Len(ManifestLines)}

HasAttribute(line, name) == \E k \in 1..Len(line.attrs) : line.attrs[k].name = name

\* the entries that carry both a BANDWIDTH and a RESOLUTION attribute
ValidEntries ==
    {i \in StreamInfEntries :
        /\ HasAttribute(ManifestLines[i], "BANDWIDTH")
        /\ HasAttribute(ManifestLines[i], "RESOLUTION")}

\* the line is a reference to one of the media playlists the session has
Resolves(line) == line.kind = "uri" /\ line.text \in DOMAIN MockSegmentPlaylists

\* initializePlayer has run, to its end or into its catch
InitSucceeded == lastEvent = "init" /\ emitted[2].type = "info"

InitFailed == lastEvent = "init" /\ emitted[2].type = "error"

\* C25: for every manifest whose entries all resolve, the ladder the parse
\* returns is sorted ascending by bandwidth and the ids of its levels are
\* pairwise distinct, also when two entries have the same bandwidth and
\* resolution.
C25_SortedWithDistinctIds ==
    (lastEvent = "init" /\ \A i \in StreamInfEntries : Resolves(ManifestLines[i + 1])) =>
       /\ InitSucceeded
       /\ \A j, k \in 1..Len(qualityLevels) :
             j < k => /\ qualityLevels[j].bandwidth <= qualityLevels[k].bandwidth
                      /\ qualityLevels[j].id # qualityLevels[k].id

\* C26: a manifest with no valid stream-info entry makes the parse fail with
\* an error instead of returning an empty ladder.
C26_NoValidEntryFails ==
    (lastEvent = "init" /\ ValidEntries = {}) => InitFailed

\* C27: an entry without BANDWIDTH or without RESOLUTION is skipped and the
\* parse does not fail for it: when the valid entries resolve, the ladder has
\* exactly one level per valid entry, with the line after the entry's tag as
\* its playlist reference.
C27_InvalidEntriesSkipped ==
    (lastEvent = "init" /\ \A i \in ValidEntries : Resolves(ManifestLines[i + 1])) =>
       /\ InitSucceeded
       /\ Len(qualityLevels) = Cardinality(ValidEntries)
       /\ \A i \in ValidEntries :
             \E k \in 1..Len(qualityLevels) :
                qualityLevels[k].url = ManifestLines[i + 1].text

\* C28: a playlist reference that is not among the media playlists makes
\* parseSegmentPlaylist fail with "Playlist not found"; the failure leaves the
\* manifest parse, initialization aborts with the ladder still empty, and an
\* error entry is logged.
C28_UnresolvedReferenceAbortsInit ==
    (lastEvent = "init" /\ \E i \in ValidEntries : ~Resolves(ManifestLines[i + 1])) =>
       /\ parseHLSManifest(manifest).error = "Playlist not found"
       /\ qualityLevels = <<>>
       /\ emitted[Len(emitted)] = LogCall("Initialization failed", "error")
       /\ \A k \in 1..Len(emitted) - 1 : emitted[k].type = "info"
       /\ ~loading

C28_Witness ==
    /\ InitFailed
    /\ qualityLevels = <<>>
    /\ manifest = <<StreamInf(<<Bandwidth(80), Resolution("640x360")>>),
                    Uri("stream_360p.m3u8"),
                    StreamInf(<<Bandwidth(140), Resolution("854x480")>>),
                    Uri("stream_missing.m3u8")>>

\* C29: every terminal failure (the manifest parse failing at start-up, a
\* fetch that used up its retries, an exception while the fetched segment is
\* handled) is both logged and counted: a step that logs an error entry also
\* adds one to a metrics counter.  TerminalFailures are the entries the three
\* handlers log (lines 543, 699, 705).
TerminalFailures ==
    {LogCall("Initialization failed", "error"),
     LogCall("Segment load failed", "error"),
     LogCall("Segment loading error", "error")}

C29_FailureLoggedAndCounted ==
    [][(\E k \in 1..Len(emitted') : emitted'[k] \in TerminalFailures) =>
          \/ droppedFrames' = droppedFrames + 1
          \/ switchCount' = switchCount + 1]_vars

(***************************************************************************)
(* simulateNetworkConditions (App.tsx 108-124), called with every          *)
(* combination of its four Math.random() draws on the grid k / DrawSteps,  *)
(* k in 0..DrawSteps - 1.  Products are exact; latency and packetLoss are  *)
(* kept as fractions num / den.                                            *)
(***************************************************************************)
DrawSteps == 4

Draws == 0..DrawSteps - 1

\* lines 109-114; packetLoss in thousandths
baseConditions ==
    <<[bandwidth |-> 500000, latency |-> 200, packetLoss |-> 50],
      [bandwidth |-> 1500000, latency |-> 100, packetLoss |-> 20],
      [bandwidth |-> 3000000, latency |-> 50, packetLoss |-> 10],
      [bandwidth |-> 8000000, latency |-> 20, packetLoss |-> 5]>>

\* line 117 without the 0.3: Math.random() * 0.4
variance_NoOffset(draw) == [num |-> 4 * draw, den |-> 10 * DrawSteps]

\* line 117: 0.3 + (Math.random() * 0.4), for the draw draw / DrawSteps
variance(draw) == [num |-> 3 * DrawSteps + 4 * draw, den |-> 10 * DrawSteps]

\* lines 108-124: simulateNetworkConditions with its draws in the order made
simulateNetworkConditions(tierDraw, varianceDraw, latencyDraw, lossDraw) ==
    LET condition ==
            baseConditions[(tierDraw * Len(baseConditions)) \div DrawSteps + 1]
        factor == variance(varianceDraw)
    IN  [bandwidth |-> (condition.bandwidth * factor.num) \div factor.den,
         latency |-> [num |-> condition.latency * DrawSteps + latencyDraw * 50,
                      den |-> DrawSteps],
         packetLoss |-> [num |-> condition.packetLoss * (DrawSteps + 2 * lossDraw),
                         den |-> 1000 * 2 * DrawSteps]]

SimulateNetwork ==
    /\ \E tierDraw, varianceDraw, latencyDraw, lossDraw \in Draws :
          simulated' = simulateNetworkConditions(tierDraw, varianceDraw,
                                                 latencyDraw, lossDraw)
    /\ UNCHANGED <<qualityLevels, currentQuality, networkCondition, bufferHealth,
                   manualQualityOverride, switchCount, video, manifest,
                   avgBandwidth, peakBandwidth, chainVisited,
                   obsQuality, lastEvent, selVars, pipelineVars, timerArmed, timerDue,
                   emitted, loadVars, ringVars>>

NetNext == SimulateNetwork

SpecNet == Init /\ [][NetNext]_vars

\* C30: for every tier and every draw in [0, 1) the simulated condition has an
\* integer bandwidth with 0 < bandwidth < 10,000,000, a latency above 0 and a
\* packet loss between 0 and 1.
C30_SimulatedConditionInRange ==
    /\ simulated.bandwidth \in Nat
    /\ 0 < simulated.bandwidth
    /\ simulated.bandwidth < 10000000
    /\ simulated.latency.num > 0 /\ simulated.latency.den > 0
    /\ 0 <= simulated.packetLoss.num
    /\ simulated.packetLoss.num <= simulated.packetLoss.den

\* the lowest tier with every draw 0: 500000 * 0.3 bit/s, 200 ms, loss 0.025
C30_Witness ==
    /\ simulated.bandwidth = 150000
    /\ simulated.latency.num = 200 * simulated.latency.den
    /\ simulated.packetLoss.num * 1000 = 25 * simulated.packetLoss.den

\* C31: each network tick sets metrics.avgBandwidth to 0.8 x its previous
\* value + 0.2 x the bandwidth of the new sample, starting from 0, and no
\* other step changes it; the average is never negative and never above the
\* largest bandwidth sampled so far.
C31_RollingAverage ==
    /\ avgBandwidth.num = 0 /\ avgBandwidth.den = 1
    /\ [](/\ avgBandwidth.den > 0
          /\ 0 <= avgBandwidth.num
          /\ avgBandwidth.num <= peakBandwidth * avgBandwidth.den)
    /\ [][IF lastEvent' = "network"
          THEN 10 * avgBandwidth'.num * avgBandwidth.den =
                  (8 * avgBandwidth.num + 2 * networkCondition'.bandwidth * avgBandwidth.den)
                     * avgBandwidth'.den
          ELSE avgBandwidth' = avgBandwidth]_vars

\* two samples, 5 Mbit/s and then 250 kbit/s: 0.8 x (0.2 x 500) + 0.2 x 25 = 85
C31_Witness ==
    /\ lastEvent = "network"
    /\ networkCondition.bandwidth = 25
    /\ peakBandwidth = 500
    /\ avgBandwidth.num = 85 * avgBandwidth.den

\* C32: after one network sample, buffer sample or override command, and with
\* no further external event, the chain of re-selections comes to rest: it
\* makes at most ladder.length - 1 switches, never returns to an index it has
\* left, and reaches a state where the target is the active index.
C32_ChainComesToRest ==
    /\ [](Len(qualityLevels) > 0 =>
             Cardinality(chainVisited) - 1 <= Len(qualityLevels) - 1)
    /\ [][lastEvent' = "effect" => currentQuality' \notin chainVisited]_vars
    /\ []<>(optimalQuality = currentQuality)

\* the emergency chain 3 -> 2 -> 1 -> 0 after the override was lifted
C32_Witness ==
    /\ lastEvent = "effect"
    /\ chainVisited = {0, 1, 2, 3}
    /\ obsQuality = 3
    /\ currentQuality = 0
    /\ optimalQuality = currentQuality

\* C33: for every ladder with positive bandwidths, sorted or not, every network
\* condition, every buffer health with isStarving false and every
\* currentQuality c, the result fed back as currentQuality is returned again:
\* select(l, n, b, select(l, n, b, c)) = select(l, n, b, c).
C33_ResultIsFixedPoint ==
    (selPc = "done" /\ ~selArgs.bufferHealth.isStarving) =>
       selectOptimalQuality(selArgs.qualityLevels, selArgs.networkCondition,
                            selArgs.bufferHealth, selResult) = selResult

\* an upgrade by two on a ladder that is not sorted
C33_Witness ==
    /\ selPc = "done"
    /\ ~selArgs.bufferHealth.isStarving
    /\ ~IsSortedLadder(selArgs.qualityLevels)
    /\ selArgs.currentQuality = 0
    /\ selResult = 2

\* C34: for a ladder sorted ascending by bandwidth and the same buffer health
\* and currentQuality, the index returned does not decrease when the available
\* bandwidth increases.
C34_MonotoneInBandwidth ==
    selPc = "done" =>
       \A network \in SelNetworks :
          availableBandwidth(selArgs.networkCondition) <= availableBandwidth(network) =>
             selResult <= selectOptimalQuality(selArgs.qualityLevels, network,
                                               selArgs.bufferHealth,
                                               selArgs.currentQuality)

\* a call that stays at index 1 where more bandwidth gives index 2
C34_Witness ==
    /\ selPc = "done"
    /\ selArgs.currentQuality = 1
    /\ selResult = 1
    /\ \E network \in SelNetworks :
          /\ availableBandwidth(selArgs.networkCondition) < availableBandwidth(network)
          /\ selectOptimalQuality(selArgs.qualityLevels, network, selArgs.bufferHealth,
                                  selArgs.currentQuality) = 2

\* the browser runs a timer that stays pending, settles a request in flight
\* and delivers sourceopen and updateend; React runs the effect of every
\* committed render; the two intervals keep ticking
FairFetchSpec ==
    /\ SpecFetch
    /\ WF_vars(FetchNetworkTick)
    /\ WF_vars(BufferTick)
    /\ WF_vars(QualityChangeEffect)
    /\ WF_vars(SourceOpen)
    /\ WF_vars(UpdateEnd)
    /\ WF_vars(TimerElapses)
    /\ WF_vars(FetchTrigger)
    /\ WF_vars(FetchRequestSettles)
    /\ WF_vars(FetchBackoffElapses)
    /\ WF_vars(FetchResumes)

\* lines 677, 682, 712: playing below target with a segment left, a ladder
\* entry and a source buffer to fetch into, and no fetch in flight
FetchWanted ==
    /\ mounted
    /\ isPlaying
    /\ bufferHealth.currentBuffer < bufferHealth.targetBuffer
    /\ ActiveQualityDefined
    /\ sourceBuffer.attached
    /\ hasSegment(currentSegmentIndex)
    /\ ~loading
    /\ Len(fetches) = 0

\* C35: a session that is playing below target with a segment left and no
\* fetch in flight does not stay so for ever: a fetch is eventually started
\* (or one of the conditions lapses), whatever the ticks do to the timer
C35_FetchEventuallyStarted == []<>(~FetchWanted)

\* C36: with no override set, a step that raises the active quality index is
\* taken from a state whose buffer is not starving and holds more than 1.2
\* times the target
C36_UpgradeOnlyOnHealthyBuffer ==
    [][(manualQualityOverride.isNull /\ currentQuality' > currentQuality)
          => (~bufferHealth.isStarving /\ bufferRatioHealthy(bufferHealth))]_vars

\* C37: a quality switch leaves the segment cursor as it is, every fetch
\* that starts requests the segment at the cursor in the active quality, and
\* the cursor changes only by +1, in the step that handles a successful fetch
C37_CursorSharedAcrossQualities ==
    [][/\ currentQuality' # currentQuality
          => currentSegmentIndex' = currentSegmentIndex
       /\ Len(fetches') > Len(fetches)
          => /\ fetches'[Len(fetches')].quality = currentQuality
             /\ fetches'[Len(fetches')].index = currentSegmentIndex
             /\ fetches'[Len(fetches')].call.url =
                   [quality |-> currentQuality, index |-> currentSegmentIndex]
       /\ currentSegmentIndex' # currentSegmentIndex
          => /\ currentSegmentIndex' = currentSegmentIndex + 1
             /\ \E i \in 1..Len(fetches) :
                   /\ fetches[i].call.pc = "returned"
                   /\ fetches[i].call.result.success
                   /\ fetches' = Remove(fetches, i)]_vars

\* a fetch in flight that was started after a switch, at a cursor that
\* earlier fetches in another quality had advanced
C37_Witness ==
    /\ Len(fetches) = 1
    /\ currentQuality # 0
    /\ fetches[1].quality = currentQuality
    /\ currentSegmentIndex >= 1
    /\ fetches[1].index = currentSegmentIndex

\* C38: a network tick changes nothing of the session but networkCondition
\* and the rolling average and logs nothing; a buffer tick changes nothing
\* but currentBuffer and isStarving of bufferHealth and logs at most one
\* starvation warning; neither changes the cursor, the override, the ladder,
\* the dropped count or targetBuffer
C38_TicksChangeOnlyTheirSample ==
    [][/\ (NetworkTick \/ FetchNetworkTick)
          => /\ UNCHANGED <<bufferHealth, qualityLevels, currentQuality,
                            manualQualityOverride, switchCount, isPlaying, loading,
                            currentSegmentIndex, droppedFrames, sourceBuffer,
                            fetches, logs, bufferEvents>>
             /\ emitted' = <<>>
       /\ BufferTick
          => /\ UNCHANGED <<networkCondition, avgBandwidth, qualityLevels,
                            currentQuality, manualQualityOverride, switchCount,
                            isPlaying, loading, currentSegmentIndex,
                            droppedFrames, sourceBuffer, fetches, logs,
                            bufferEvents>>
             /\ bufferHealth'.targetBuffer = bufferHealth.targetBuffer
             /\ emitted' \in {<<>>, <<LogCall("Buffer starving", "warning")>>}]_vars

\* a buffer tick that logged its warning in a session that has taken network
\* samples, advanced the cursor and dropped a segment
C38_Witness ==
    /\ emitted = <<LogCall("Buffer starving", "warning")>>
    /\ networkCondition \in NetworkSamples \ {[bandwidth |-> 200, packetLoss |-> 10]}
    /\ currentSegmentIndex >= 1
    /\ droppedFrames >= 1
    /\ bufferHealth.targetBuffer = TargetBufferSeconds

\* C39: a fetch starts only in a state that is playing; a pause leaves the
\* fetches in flight and the loading flag as they are; and a fetch that
\* returns while the session is not playing is handled as at any other time:
\* it leaves the slot and its result is applied (the cursor advances on an
\* appended segment, the dropped count on a failure)
C39_NoFetchWhilePaused ==
    [][/\ Len(fetches') > Len(fetches) => isPlaying
       /\ (isPlaying /\ ~isPlaying') => (fetches' = fetches /\ loading' = loading)
       /\ (~isPlaying /\ Len(fetches') < Len(fetches))
          => \E i \in 1..Len(fetches) :
                LET result == fetches[i].call.result
                IN  /\ fetches[i].call.pc = "returned"
                    /\ fetches' = Remove(fetches, i)
                    /\ ~loading'
                    /\ IF result.success /\ result.data # Absent
                          /\ sourceBuffer.attached /\ ~sourceBuffer.updating
                       THEN \/ /\ currentSegmentIndex' = currentSegmentIndex + 1
                               /\ sourceBuffer'.updating
                            \/ emitted' = <<LogCall("Segment loading error", "error")>>
                       ELSE /\ currentSegmentIndex' = currentSegmentIndex
                            /\ ~result.success
                               => droppedFrames' = droppedFrames + 1]_vars

\* a paused session in which a fetch that was in flight at the pause has just
\* appended its segment and advanced the cursor, with the buffer below target
C39_Witness ==
    /\ mounted
    /\ ~isPlaying
    /\ emitted = <<LogCall("Loaded segment", "info")>>
    /\ currentSegmentIndex >= 1
    /\ Len(fetches) = 0
    /\ ~timerArmed
    /\ bufferHealth.currentBuffer < bufferHealth.targetBuffer

====
